---- MODULE Spec2Model ----
(***************************************************************************)
(* A model of src/index.js: the express service that registers an issuer   *)
(* DID once (initialize), issues credentials (issueAndSignCredential),     *)
(* queries them back (getRecord) and consults the authorization gateway    *)
(* (getPermission), with localStorage as its persistent state.             *)
(*                                                                         *)
(* Every `await` of the source is one step of the model: between two       *)
(* awaits a handler runs without interruption (one event loop), and at an  *)
(* await any other handler, or initialize, may run.  A call into the SDK   *)
(* or the network either resolves or throws.                               *)
(***************************************************************************)
EXTENDS Naturals, Sequences, FiniteSets

\* Bounds of the model.
MaxReqs == 2
MaxObjs == 2

Reqs == 1..MaxReqs
Custs == {"custA", "custB"}

\* localStorage.getItem of a key never set
Null == "null"

VARIABLES store, started, regAtStart, initCalls, init, reqs, dwn, graph, out

vars == <<store, started, regAtStart, initCalls, init, reqs, dwn, graph, out>>

serVars == <<graph, out>>

(***************************************************************************)
(* JavaScript values that flow through the handlers.                       *)
(***************************************************************************)
JsV(t, v) == [t |-> t, v |-> v]
Undef == JsV("undefined", 0)
EmptyStr == JsV("string", 0)
Rec(n) == JsV("record", n)
Jwt(n) == JsV("jwt", n)
StatusOk == JsV("status", 202)
GwApproved == JsV("json", 1)
GwDenied == JsV("json", 0)
SdkError == JsV("Error", 0)
ReferenceError == JsV("ReferenceError", 0)
ResultObject(n) == JsV("object", n)

\* a ?? b
Coalesce(a, b) == IF a.t \in {"undefined", "null"} THEN b ELSE a

\* records[records.length - 1]
LastOf(records) ==
    IF Len(records) = 0 THEN Undef ELSE Rec(records[Len(records)])

(***************************************************************************)
(* State after construction.  new LocalStorage('./scratch') opens what an  *)
(* earlier run of the process left on disk: nothing on the first start,    *)
(* the keys of a completed initialize() on a start after it.               *)
(***************************************************************************)
EmptyStore ==
    [registered |-> Null, didURI |-> Null, authURL |-> Null,
     permission |-> Null, bearer |-> Null]

RegisteredStore ==
    [registered |-> "true", didURI |-> "did", authURL |-> "authorize?issuerDid=did",
     permission |-> Null, bearer |-> "json"]

StartStores == {EmptyStore, RegisteredStore}

\* A request slot: the route and body of the request, where its handler
\* stands (pc), the handler's live locals (gw: what getPermission resolved
\* to; rec: the record this call created, 0 before; records: a query's
\* result; result: what getRecord resolved to; caught: issueAndSignCredential
\* caught an error), and what the handler has sent (sent responses, status
\* code, body).
IdleReq ==
    [route |-> "none", cust |-> "none", pc |-> "idle",
     gw |-> Undef, rec |-> 0, records |-> <<>>, result |-> Undef,
     caught |-> FALSE, overlapped |-> FALSE,
     sent |-> 0, code |-> 0, body |-> <<>>]

InitIdle == [pc |-> "idle", err |-> "none"]

\* Empty objects: what the serializer variables hold while the service
\* specification runs.
NoGraph == [n \in 1..MaxObjs |-> [kind |-> "object", slots |-> <<>>]]

SvcInit ==
    /\ store \in StartStores
    /\ started = FALSE
    /\ regAtStart = "unread"
    /\ initCalls = 0
    /\ init = InitIdle
    /\ reqs = [r \in Reqs |-> IdleReq]
    /\ dwn = [c \in Custs |-> <<>>]

Init ==
    /\ SvcInit
    /\ graph = NoGraph
    /\ out = <<>>

(***************************************************************************)
(* Process start and initialize().                                         *)
(***************************************************************************)

\* initialize() is called: it runs to its first await, Web5.connect(...)
CallInitialize ==
    /\ initCalls' = initCalls + 1
    /\ init' = [pc |-> "connect", err |-> "none"]

\* The app.listen callback without its test of the registered flag.
ListenCallbackAlways ==
    /\ ~started
    /\ started' = TRUE
    /\ regAtStart' = store.registered
    /\ CallInitialize
    /\ UNCHANGED <<store, reqs, dwn, serVars>>

\* the app.listen callback
ListenCallback ==
    /\ ~started
    /\ started' = TRUE
    /\ regAtStart' = store.registered
    /\ IF store.registered # "true"
       THEN CallInitialize
       ELSE UNCHANGED <<initCalls, init>>
    /\ UNCHANGED <<store, reqs, dwn, serVars>>

\* catch (error) { console.error(...) } of initialize
InitCaught(stage) == init' = [pc |-> "done", err |-> stage]

\* await Web5.connect({didCreateOptions, registration: {onSuccess, onFailure}})
InitConnect ==
    /\ init.pc = "connect"
    /\ \/ /\ InitCaught("connect")
          /\ UNCHANGED store
       \/ \* registration.onSuccess ran during connect
          /\ store' = [store EXCEPT !.registered = "true"]
          /\ init' = [init EXCEPT !.pc = "configure"]
       \/ \* registration.onFailure ran during connect
          /\ UNCHANGED store
          /\ init' = [init EXCEPT !.pc = "configure"]
    /\ UNCHANGED <<started, regAtStart, initCalls, reqs, dwn, serVars>>

\* await web5.dwn.protocols.configure(...)
InitConfigure ==
    /\ init.pc = "configure"
    /\ \/ InitCaught("configure")
       \/ init' = [init EXCEPT !.pc = "send"]
    /\ UNCHANGED <<store, started, regAtStart, initCalls, reqs, dwn, serVars>>

\* await protocol.send(did); then didURI and authURL are stored and
\* web5.agent.identity.get is awaited
InitProtocolSend ==
    /\ init.pc = "send"
    /\ \/ /\ InitCaught("send")
          /\ UNCHANGED store
       \/ /\ store' = [store EXCEPT !.didURI = "did", !.authURL = "authorize?issuerDid=did"]
          /\ init' = [init EXCEPT !.pc = "identity"]
    /\ UNCHANGED <<started, regAtStart, initCalls, reqs, dwn, serVars>>

\* await web5.agent.identity.get(...); then the bearer DID is serialized
InitIdentity ==
    /\ init.pc = "identity"
    /\ \/ /\ InitCaught("identity")
          /\ UNCHANGED store
       \/ /\ store' = [store EXCEPT !.bearer = "json"]
          /\ init' = [init EXCEPT !.pc = "done"]
    /\ UNCHANGED <<started, regAtStart, initCalls, reqs, dwn, serVars>>

(***************************************************************************)
(* Requests.  Request r is the r-th request the process accepts.           *)
(***************************************************************************)
SetReq(r, q) == reqs' = [reqs EXCEPT ![r] = q]

\* A handler that has returned or thrown: its locals are gone, what it sent
\* remains.
Finished(q, pc, sent, code, body) ==
    [IdleReq EXCEPT !.route = q.route, !.pc = pc, !.rec = q.rec,
                    !.records = q.records, !.result = q.result,
                    !.caught = q.caught, !.overlapped = q.overlapped,
                    !.sent = sent, !.code = code, !.body = body]

\* express calls a route's handler for request r with custDid = cust in its
\* body, once the server listens
Accepts(r, cust) ==
    /\ started
    /\ reqs[r].pc = "idle"
    /\ IF r = 1 THEN TRUE ELSE reqs[r - 1].pc # "idle"
    /\ cust \in Custs

\* the request as its handler starts on it
NewReq(route, cust) == [IdleReq EXCEPT !.route = route, !.cust = cust]

(***************************************************************************)
(* getRecord and POST /                                                    *)
(***************************************************************************)

\* Whether the identifier `record` of `content: record` is bound where
\* getRecord evaluates it: getRecord declares `web5` and `records` only, and
\* the module scope declares no `record` (the one of issueAndSignCredential is
\* local to its try block).
RecordIdentifierBound == FALSE

\* catch (e) { return e; }
GetRecordCaught(e) == e

\* return {record: records[records.length - 1], content: record}, inside try:
\* the value getRecord resolves to once the query has resolved
GetRecordReturn(records) ==
    IF RecordIdentifierBound
    THEN ResultObject(IF Len(records) = 0 THEN 0 ELSE records[Len(records)])
    ELSE GetRecordCaught(ReferenceError)    \* thrown by the return expression

\* A handler that answers an error value with status 500.
RootRespondTranslating(q, value) ==
    Finished([q EXCEPT !.result = value], "done", q.sent + 1,
             IF value.t \in {"Error", "ReferenceError"} THEN 500 ELSE 200,
             <<value>>)

\* const records = await getRecord(custDid); res.send(records);
RootRespond(q, value) ==
    Finished([q EXCEPT !.result = value], "done", q.sent + 1, 200, <<value>>)

\* the POST / handler up to getRecord's await Web5.connect()
HandleRoot(r, cust) ==
    /\ Accepts(r, cust)
    /\ SetReq(r, [NewReq("/", cust) EXCEPT !.pc = "gr_connect"])
    /\ UNCHANGED <<store, started, regAtStart, initCalls, init, dwn, serVars>>

\* await Web5.connect() resolves or throws; then records.query is called
\* with author: localStorage.getItem("didURI")
GrConnect(r) ==
    /\ reqs[r].pc = "gr_connect"
    /\ \/ SetReq(r, RootRespond(reqs[r], GetRecordCaught(SdkError)))
       \/ SetReq(r, [reqs[r] EXCEPT !.pc = "gr_query"])
    /\ UNCHANGED <<store, started, regAtStart, initCalls, init, dwn, serVars>>

\* await web5.dwn.records.query(...) resolves or throws
GrQuery(r) ==
    /\ reqs[r].pc = "gr_query"
    /\ \/ SetReq(r, RootRespond(reqs[r], GetRecordCaught(SdkError)))
       \/ LET records == dwn[reqs[r].cust]
          IN SetReq(r, RootRespond([reqs[r] EXCEPT !.records = records],
                                   GetRecordReturn(records)))
    /\ UNCHANGED <<store, started, regAtStart, initCalls, init, dwn, serVars>>

(***************************************************************************)
(* getPermission and POST /get-permission                                  *)
(***************************************************************************)

\* what getPermission resolves to when fetch and response.json() resolve
GatewayAnswers == {GwApproved, GwDenied}

\* catch (error) { console.error(...) }: getPermission resolves undefined
GetPermissionCaught == Undef

\* A handler that sets the flag only on an approval.
FlagAfterPermissionRouteIfApproved(flag, data) ==
    IF data = GwApproved THEN "true" ELSE flag

\* localStorage.setItem("permission", "true") of the /get-permission handler:
\* the flag after it, given the flag before and what getPermission resolved to
FlagAfterPermissionRoute(flag, data) == "true"

\* res.json(data); localStorage.setItem("permission", "true");
PermissionRespond(r, data) ==
    /\ SetReq(r, Finished(reqs[r], "done", reqs[r].sent + 1, 200, <<data>>))
    /\ store' = [store EXCEPT !.permission = FlagAfterPermissionRoute(store.permission, data)]

\* the POST /get-permission handler up to getPermission's await fetch(...)
HandleGetPermission(r) ==
    /\ \E cust \in Custs : Accepts(r, cust)    \* the body is not read
    /\ SetReq(r, [NewReq("/get-permission", "none") EXCEPT !.pc = "gp_fetch"])
    /\ UNCHANGED <<store, started, regAtStart, initCalls, init, dwn, serVars>>

\* await fetch(...) resolves or throws
GpFetch(r) ==
    /\ reqs[r].pc = "gp_fetch"
    /\ \/ PermissionRespond(r, GetPermissionCaught)
       \/ /\ SetReq(r, [reqs[r] EXCEPT !.pc = "gp_json"])
          /\ UNCHANGED store
    /\ UNCHANGED <<started, regAtStart, initCalls, init, dwn, serVars>>

\* await response.json() resolves or throws
GpJson(r) ==
    /\ reqs[r].pc = "gp_json"
    /\ \/ PermissionRespond(r, GetPermissionCaught)
       \/ \E data \in GatewayAnswers : PermissionRespond(r, data)
    /\ UNCHANGED <<started, regAtStart, initCalls, init, dwn, serVars>>

(***************************************************************************)
(* issueAndSignCredential and POST /get-credential                         *)
(***************************************************************************)
IssuePcs == {"is_import", "is_create", "is_connect", "is_identity", "is_sign",
             "is_reccreate", "is_send", "is_query"}

Issuing(q) == q.pc \in IssuePcs

\* if (localStorage.getItem("permission") !== "true")
NeedsGateway(flag) == flag # "true"

\* A callback that sets the flag only on an approval.
FlagAfterGatewayIfApproved(flag, data) ==
    IF data = GwApproved THEN "true" ELSE flag

\* the .then callback after getPermission(): the flag after it, given the
\* flag before and what getPermission resolved to
FlagAfterGateway(flag, data) == "true"

\* issueAndSignCredential(custDid) is called and runs to its first await,
\* the import of @web5/credentials.  An issuance to the same customer that is
\* still running overlaps this one.  What getPermission resolved to was
\* never bound to a name and is gone by now.
EnterIssue(r, q) ==
    reqs' = [x \in Reqs |->
               IF x = r
               THEN [q EXCEPT !.pc = "is_import", !.gw = Undef,
                              !.overlapped = \E y \in Reqs \ {r} :
                                   Issuing(reqs[y]) /\ reqs[y].cust = q.cust]
               ELSE IF Issuing(reqs[x]) /\ reqs[x].cust = q.cust
               THEN [reqs[x] EXCEPT !.overlapped = TRUE]
               ELSE reqs[x]]

\* what issueAndSignCredential resolves to from its catch block: undefined
NoData == [defined |-> FALSE, status |-> Undef, record |-> Undef,
           id |-> Undef, KCC |-> Undef]

\* A return that takes the first entry of the query result: id: records[0]
IssueReturnFirst(q, records) ==
    [defined |-> TRUE, status |-> StatusOk, record |-> Rec(q.rec),
     id |-> IF Len(records) = 0 THEN Undef ELSE Rec(records[1]),
     KCC |-> Jwt(q.rec)]

\* return { status, record, id: records[records.length-1], KCC: signed_vc }
IssueReturn(q, records) ==
    [defined |-> TRUE, status |-> StatusOk, record |-> Rec(q.rec),
     id |-> LastOf(records), KCC |-> Jwt(q.rec)]

\* res.json({status: data.status ?? "", record: data.record ?? "",
\*           id: data.id ?? "", KCC: data.KCC ?? ""})
\* With data undefined, data.status throws a TypeError before res.json is
\* called: the handler's promise rejects and the handler has sent nothing.
CredentialRespond(q, data) ==
    IF data.defined
    THEN Finished(q, "done", q.sent + 1, 200,
                  <<Coalesce(data.status, EmptyStr),
                    Coalesce(data.record, EmptyStr),
                    Coalesce(data.id, EmptyStr),
                    Coalesce(data.KCC, EmptyStr)>>)
    ELSE Finished(q, "threw", q.sent, q.code, q.body)

\* catch (error) { console.error(...) } of issueAndSignCredential: the routine
\* resolves to undefined, and the handler goes on with it
IssueCaught(r) ==
    SetReq(r, CredentialRespond([reqs[r] EXCEPT !.caught = TRUE], NoData))

\* the POST /get-credential handler up to its first await
HandleGetCredential(r, cust) ==
    /\ Accepts(r, cust)
    /\ IF NeedsGateway(store.permission)
       THEN SetReq(r, [NewReq("/get-credential", cust) EXCEPT !.pc = "gc_fetch"])
       ELSE EnterIssue(r, NewReq("/get-credential", cust))
    /\ UNCHANGED <<store, started, regAtStart, initCalls, init, dwn, serVars>>

\* getPermission: await fetch(...) resolves or throws
GcFetch(r) ==
    /\ reqs[r].pc = "gc_fetch"
    /\ \/ SetReq(r, [reqs[r] EXCEPT !.gw = GetPermissionCaught, !.pc = "gc_then"])
       \/ SetReq(r, [reqs[r] EXCEPT !.pc = "gc_json"])
    /\ UNCHANGED <<store, started, regAtStart, initCalls, init, dwn, serVars>>

\* getPermission: await response.json() resolves or throws
GcJson(r) ==
    /\ reqs[r].pc = "gc_json"
    /\ \/ SetReq(r, [reqs[r] EXCEPT !.gw = GetPermissionCaught, !.pc = "gc_then"])
       \/ \E data \in GatewayAnswers :
             SetReq(r, [reqs[r] EXCEPT !.gw = data, !.pc = "gc_then"])
    /\ UNCHANGED <<store, started, regAtStart, initCalls, init, dwn, serVars>>

\* .then(() => { localStorage.setItem("permission", "true"); })
GcThen(r) ==
    /\ reqs[r].pc = "gc_then"
    /\ store' = [store EXCEPT !.permission = FlagAfterGateway(store.permission, reqs[r].gw)]
    /\ SetReq(r, [reqs[r] EXCEPT !.pc = "gc_issue"])
    /\ UNCHANGED <<started, regAtStart, initCalls, init, dwn, serVars>>

\* the handler resumes after the await and calls issueAndSignCredential
GcIssue(r) ==
    /\ reqs[r].pc = "gc_issue"
    /\ EnterIssue(r, reqs[r])
    /\ UNCHANGED <<store, started, regAtStart, initCalls, init, dwn, serVars>>

\* One await of issueAndSignCredential that touches no state of the service:
\* it throws, or resolves and the routine runs to its next await.
IssueAwait(r, pc, next) ==
    /\ reqs[r].pc = pc
    /\ \/ IssueCaught(r)
       \/ SetReq(r, [reqs[r] EXCEPT !.pc = next])
    /\ UNCHANGED <<store, started, regAtStart, initCalls, init, dwn, serVars>>

\* await import('@web5/credentials'); then VerifiableCredential.create is
\* called with issuer: localStorage.getItem("didURI")
IsImport(r) == IssueAwait(r, "is_import", "is_create")
\* await VerifiableCredential.create(...); then Web5.connect() is called
IsCreate(r) == IssueAwait(r, "is_create", "is_connect")
\* await Web5.connect(); then web5.agent.identity.get is called with
\* didUri: localStorage.getItem("didURI")
IsConnect(r) == IssueAwait(r, "is_connect", "is_identity")
\* await web5.agent.identity.get(...); then vc.sign is called
IsIdentity(r) == IssueAwait(r, "is_identity", "is_sign")
\* await vc.sign(...); then web5.dwn.records.create is called
IsSign(r) == IssueAwait(r, "is_sign", "is_reccreate")

\* await web5.dwn.records.create(...): the record of this call exists (not
\* stored locally: store:false); then record.send(custDid) is called
IsRecCreate(r) ==
    /\ reqs[r].pc = "is_reccreate"
    /\ \/ IssueCaught(r)
       \/ SetReq(r, [reqs[r] EXCEPT !.rec = r, !.pc = "is_send"])
    /\ UNCHANGED <<store, started, regAtStart, initCalls, init, dwn, serVars>>

\* await record.send(custDid): the customer's DWN holds the record; then
\* web5.dwn.records.query is called
IsSend(r) ==
    /\ reqs[r].pc = "is_send"
    /\ \/ /\ IssueCaught(r)
          /\ UNCHANGED dwn
       \/ /\ dwn' = [dwn EXCEPT ![reqs[r].cust] = Append(@, reqs[r].rec)]
          /\ SetReq(r, [reqs[r] EXCEPT !.pc = "is_query"])
    /\ UNCHANGED <<store, started, regAtStart, initCalls, init, serVars>>

\* await web5.dwn.records.query(...): the routine returns and the handler
\* responds
IsQuery(r) ==
    /\ reqs[r].pc = "is_query"
    /\ \/ IssueCaught(r)
       \/ LET records == dwn[reqs[r].cust]
          IN SetReq(r, CredentialRespond([reqs[r] EXCEPT !.records = records],
                                         IssueReturn(reqs[r], records)))
    /\ UNCHANGED <<store, started, regAtStart, initCalls, init, dwn, serVars>>

(***************************************************************************)
(* The service.                                                            *)
(***************************************************************************)
SvcNext ==
    \/ ListenCallback
    \/ InitConnect
    \/ InitConfigure
    \/ InitProtocolSend
    \/ InitIdentity
    \/ \E r \in Reqs, cust \in Custs : HandleRoot(r, cust)
    \/ \E r \in Reqs : GrConnect(r)
    \/ \E r \in Reqs : GrQuery(r)
    \/ \E r \in Reqs : HandleGetPermission(r)
    \/ \E r \in Reqs : GpFetch(r)
    \/ \E r \in Reqs : GpJson(r)
    \/ \E r \in Reqs, cust \in Custs : HandleGetCredential(r, cust)
    \/ \E r \in Reqs : GcFetch(r)
    \/ \E r \in Reqs : GcJson(r)
    \/ \E r \in Reqs : GcThen(r)
    \/ \E r \in Reqs : GcIssue(r)
    \/ \E r \in Reqs : IsImport(r)
    \/ \E r \in Reqs : IsCreate(r)
    \/ \E r \in Reqs : IsConnect(r)
    \/ \E r \in Reqs : IsIdentity(r)
    \/ \E r \in Reqs : IsSign(r)
    \/ \E r \in Reqs : IsRecCreate(r)
    \/ \E r \in Reqs : IsSend(r)
    \/ \E r \in Reqs : IsQuery(r)

Next == SvcNext

Spec == Init /\ [][Next]_vars

(***************************************************************************)
(* JSON.stringify(dwnBearerDid, removeCircularReferences())                *)
(*                                                                         *)
(* An object graph: objects 1..MaxObjs, object 1 the one serialized.  An   *)
(* object is a plain object or an array; its slots, in property order,     *)
(* hold another object (its number) or a primitive (0).                    *)
(***************************************************************************)
Objs == 1..MaxObjs
Keys == <<"a", "b">>
Kinds == {"object", "array"}
SlotSeqs == UNION {[1..n -> 0..MaxObjs] : n \in 0..Len(Keys)}
Graphs == [Objs -> [kind : Kinds, slots : SlotSeqs]]

\* typeof value === "object" && value !== null
IsObject(v) == v \in Objs

\* A replacer that returns null, not undefined, for an object it has seen.
ReplacerNull(seen, v) ==
    IF IsObject(v)
    THEN IF v \in seen
         THEN [ret |-> "null", seen |-> seen]
         ELSE [ret |-> "value", seen |-> seen \cup {v}]
    ELSE [ret |-> "value", seen |-> seen]

\* The replacer removeCircularReferences() returns, called with a value and
\* the WeakSet `seen` as it stands: what it returns (the value, or undefined)
\* and `seen` after the call.
Replacer(seen, v) ==
    IF IsObject(v)
    THEN IF v \in seen
         THEN [ret |-> "undefined", seen |-> seen]
         ELSE [ret |-> "value", seen |-> seen \cup {v}]
    ELSE [ret |-> "value", seen |-> seen]

\* What JSON.stringify writes for a property whose replacer call returned
\* ret: a plain object omits a property that is undefined, an array writes
\* null in its place; a null is written as null by both.
Written(kind, ret) ==
    IF ret = "undefined"
    THEN IF kind = "array" THEN "null" ELSE "omitted"
    ELSE IF ret = "null" THEN "null"
    ELSE "kept"

\* JSON.stringify's walk over the slots i.. of object n: one replacer call
\* per slot, in order, descending into a value that is kept.  st.ev lists the
\* calls: the holder, the slot, the value, and what was written for it.
RECURSIVE WalkSlots(_, _, _, _)
WalkSlots(g, n, i, st) ==
    IF i > Len(g[n].slots) THEN st
    ELSE LET v == g[n].slots[i]
             r == Replacer(st.seen, v)
             how == Written(g[n].kind, r.ret)
             st1 == [seen |-> r.seen,
                     ev |-> Append(st.ev, [holder |-> n, slot |-> i,
                                           val |-> v, how |-> how])]
             st2 == IF how = "kept" /\ IsObject(v)
                    THEN WalkSlots(g, v, 1, st1)
                    ELSE st1
         IN WalkSlots(g, n, i + 1, st2)

\* JSON.stringify(value, replacer): the replacer is first called for the
\* value itself, under the key "" of a wrapper object (holder 0)
Stringify(g) ==
    LET r == Replacer({}, 1)
        how == Written("object", r.ret)
        st == [seen |-> r.seen,
               ev |-> <<[holder |-> 0, slot |-> 1, val |-> 1, how |-> how]>>]
    IN (IF how = "kept" THEN WalkSlots(g, 1, 1, st) ELSE st).ev

SerInit ==
    /\ SvcInit
    /\ store = EmptyStore
    /\ graph \in Graphs
    /\ out = <<>>

\* localStorage.setItem("dwnBearerDid.json", JSON.stringify(dwnBearerDid, ...))
SerializeBearerDid ==
    /\ out = <<>>
    /\ out' = Stringify(graph)
    /\ UNCHANGED <<store, started, regAtStart, initCalls, init, reqs, dwn, graph>>

SerNext == SerializeBearerDid

SpecSer == SerInit /\ [][SerNext]_vars

(***************************************************************************)
(* Properties.                                                             *)
(***************************************************************************)
Credential(q) == q.route = "/get-credential"
Root(q) == q.route = "/"
Permission(q) == q.route = "/get-permission"

\* the handler has returned, or has thrown
Over(q) == q.pc \in {"done", "threw"}

EmptyBody == <<EmptyStr, EmptyStr, EmptyStr, EmptyStr>>

\* C1: a POST /get-credential request in which a downstream call of
\* issueAndSignCredential failed is still answered, with status 200 and the
\* body {status:"", record:"", id:"", KCC:""}.
C1_FailedIssuanceAnswered200Empty ==
    \A r \in Reqs :
        Credential(reqs[r]) /\ reqs[r].caught /\ Over(reqs[r])
            => /\ reqs[r].sent = 1
               /\ reqs[r].code = 200
               /\ reqs[r].body = EmptyBody

\* C2: initialize has been called once when the listen callback read a
\* registered flag other than "true", never when it read "true", and never
\* before the callback; no request changes that.
C2_BootstrapOncePerStart ==
    initCalls = IF started /\ regAtStart # "true" THEN 1 ELSE 0

C2_Witness ==
    /\ started /\ regAtStart = Null /\ initCalls = 1 /\ init.pc = "done"
    /\ \A r \in Reqs : Over(reqs[r])
    /\ \E r \in Reqs : Credential(reqs[r])

\* C3: when the query of getRecord resolved to a non-empty list, getRecord
\* resolves to a result object whose record is the last entry of the list.
C3_GetRecordReturnsLastRecord ==
    \A r \in Reqs :
        Root(reqs[r]) /\ reqs[r].pc = "done" /\ Len(reqs[r].records) > 0
            => reqs[r].result = ResultObject(reqs[r].records[Len(reqs[r].records)])

\* C4: a POST / request is never left by a throwing handler; once its handler
\* is over it has sent exactly one response, with status 200, whose body is the
\* value getRecord resolved to (a result object or an error object).
C4_RootAnswersOnceWith200 ==
    \A r \in Reqs :
        Root(reqs[r]) =>
            /\ reqs[r].pc \in {"gr_connect", "gr_query", "done"}
            /\ reqs[r].pc # "done" => reqs[r].sent = 0
            /\ reqs[r].pc = "done" =>
                  /\ reqs[r].sent = 1
                  /\ reqs[r].code = 200
                  /\ reqs[r].body = <<reqs[r].result>>
                  /\ reqs[r].result.t \in {"object", "Error", "ReferenceError"}

C4_Witness ==
    \E r \in Reqs :
        /\ Root(reqs[r]) /\ reqs[r].pc = "done"
        /\ reqs[r].code = 200 /\ reqs[r].body = <<SdkError>>

\* C5: once a POST /get-permission request is over, the permission flag is
\* "true", whatever getPermission resolved to.
C5_PermissionRouteSetsFlag ==
    \A r \in Reqs :
        Permission(reqs[r]) /\ Over(reqs[r]) => store.permission = "true"

C5_Witness ==
    \E r \in Reqs :
        /\ Permission(reqs[r]) /\ reqs[r].pc = "done"
        /\ reqs[r].body = <<GwDenied>>
        /\ store.permission = "true"

\* C6: a /get-credential handler calls the gateway exactly when the flag it
\* reads is not "true"; the flag is "true" from the moment the handler is
\* about to start the issuance; and a flag that is "true" stays "true".
C6_GatewayIffFlagUnset ==
    /\ [][\A r \in Reqs :
            reqs[r].pc = "idle" /\ Credential(reqs'[r])
                => (reqs'[r].pc = "gc_fetch" <=> store.permission # "true")]_vars
    /\ [](\A r \in Reqs :
            Credential(reqs[r]) /\ (reqs[r].pc = "gc_issue" \/ Issuing(reqs[r]))
                => store.permission = "true")
    /\ [][store.permission = "true" => store'.permission = "true"]_vars

C6_Witness ==
    \E r \in Reqs :
        /\ Credential(reqs[r]) /\ reqs[r].pc = "gc_issue"
        /\ reqs[r].gw = GwDenied
        /\ store.permission = "true"

\* C7: when initialize is over after a failure of protocol configuration,
\* protocol send or identity lookup, the registered flag is not "true".
C7_FailedBootstrapLeavesUnregistered ==
    init.pc = "done" /\ init.err \in {"configure", "send", "identity"}
        => store.registered # "true"

\* The awaits after which a request routine calls localStorage.getItem("didURI")
DidURIReadPcs == {"gr_connect", "is_import", "is_connect", "is_send"}

\* C8: on a start with registered unset, whenever a request routine is about
\* to read didURI, initialize is over and didURI is in the store.
C8_BootstrapBeforeRequests ==
    \A r \in Reqs :
        started /\ regAtStart # "true" /\ reqs[r].pc \in DidURIReadPcs
            => init.pc = "done" /\ store.didURI # Null

\* C9: the id an issuance returns is the last entry of its own query result
\* (or "" when there is none); when no other issuance to the same customer
\* overlapped the call, it is the record the call sent.
C9_IdIsLastQueried ==
    \A r \in Reqs :
        Credential(reqs[r]) /\ reqs[r].pc = "done" =>
            /\ reqs[r].body[3] = Coalesce(LastOf(reqs[r].records), EmptyStr)
            /\ ~reqs[r].overlapped => reqs[r].body[3] = Rec(reqs[r].rec)

\* two issuances to one customer overlapped, and one returned as id the
\* record the other sent
C9_Witness ==
    \E r \in Reqs, o \in Reqs :
        /\ r # o
        /\ Credential(reqs[r]) /\ reqs[r].pc = "done" /\ reqs[r].overlapped
        /\ reqs[r].body[2] = Rec(r)
        /\ reqs[r].body[3] = Rec(o)

\* The replacer calls of out whose value is the object n
Occurrences(n) == {i \in DOMAIN out : out[i].val = n}
IsFirst(i) == \A j \in Occurrences(out[i].val) : i <= j

\* the serialized output holds every object at most once
AtMostOnce ==
    \A n \in Objs :
        Cardinality({i \in Occurrences(n) : out[i].how = "kept"}) <= 1

\* C10 as stated: an object is kept at its first occurrence and its key is
\* dropped at every later one; the output holds every object at most once.
C10_LaterOccurrencesDropped ==
    /\ \A i \in DOMAIN out :
          IsObject(out[i].val) =>
              out[i].how = IF IsFirst(i) THEN "kept" ELSE "omitted"
    /\ AtMostOnce

\* C10, amended: an object is kept at its first occurrence; at every later
\* one its key is dropped when the holder is a plain object, and null is
\* written in its place when the holder is an array; the output holds every
\* object at most once.
C10_LaterOccurrencesDroppedOrNull ==
    /\ \A i \in DOMAIN out :
          IsObject(out[i].val) =>
              out[i].how = IF IsFirst(i) THEN "kept"
                           ELSE IF graph[out[i].holder].kind = "array" THEN "null"
                           ELSE "omitted"
    /\ AtMostOnce

\* a back-edge to the serialized object was dropped from a plain object, and
\* a repeated element of an array was written as null
C10_Witness ==
    \E i \in DOMAIN out, j \in DOMAIN out :
        /\ out[i].val = 1 /\ out[i].holder # 0 /\ out[i].how = "omitted"
        /\ out[j].how = "null"

====
